---- MODULE Spec2Model ----
(***************************************************************************)
(* Model of src/server.js: the credit-sales back office (clientes, ventas, *)
(* apartados, abonos) over one SQLite connection.                          *)
(*                                                                         *)
(* State: the four tables, the AUTOINCREMENT counters, the requests whose  *)
(* callbacks are still pending (pendientes, a bag: two requests with the   *)
(* same content are two entries), the number of requests received          *)
(* (peticiones) and the response the last step sent (emitted).             *)
(*                                                                         *)
(* Granularity: one action per database statement together with the        *)
(* callback that receives its result.  SQLite executes one statement at a  *)
(* time, and a callback only reads its own result before it queues the     *)
(* next statement or answers, so statements of different requests          *)
(* interleave exactly at these points.  A route handler reads no table: it *)
(* validates the body and queues its first statement, and is modelled in   *)
(* one action with that statement.                                         *)
(*                                                                         *)
(* Amounts are exact decimals in units of 0.0001, so 0.001 is 10.          *)
(* All requests of a run fall on one calendar day (HOY).                   *)
(*                                                                         *)
(* Routes that touch no modelled column are left out: GET/PUT clientes,    *)
(* PUT .../fecha, GET abonos.                                              *)
(***************************************************************************)
EXTENDS Integers, FiniteSets, Sequences, Bags, TLC

\* ---------------------------------------------------------------- bounds
MaxPeticiones == 4   \* requests the server receives in a run

\* ------------------------------------------------------------- constants
EPS == 10            \* 0.001
NULL == -1           \* SQL NULL, JS null/undefined
HOY == "hoy"         \* new Date().toISOString().split("T")[0]

\* The connection is opened without PRAGMA foreign_keys = ON, and SQLite
\* leaves foreign keys off by default: REFERENCES ... ON DELETE CASCADE is
\* declared but not enforced.
ForeignKeys == FALSE

\* ------------------------------------------------------------ input sets
\* req.body.monto of a sale or layaway: 100.00
Montos == {1000000}
\* req.body.monto of a payment: undefined, 0, 50.00, 100.0005, 100.001
AbonoMontoInputs == {NULL, 0, 500000, 1000005, 1000010}

VARIABLES clientes, ventas, apartados, abonos,
          nextVentaId, nextApartadoId, nextAbonoId,
          pendientes, peticiones, emitted

vars == <<clientes, ventas, apartados, abonos,
          nextVentaId, nextApartadoId, nextAbonoId,
          pendientes, peticiones, emitted>>

\* Ids a request can name: one of every id handed out so far, and the next
\* one, which no row has yet.
VentaIds == 1..nextVentaId
ApartadoIds == 1..nextApartadoId
ClienteIds == 1..(Cardinality(clientes) + 1)

db == <<clientes, ventas, apartados, abonos,
        nextVentaId, nextApartadoId, nextAbonoId>>

\* --------------------------------------------------------------- helpers
\* JS truthiness of an id taken from the body: null, undefined and 0 are falsy.
Truthy(v) == v # NULL /\ v # 0

RECURSIVE SumMontos(_)
SumMontos(ids) ==
    IF ids = {} THEN 0
    ELSE LET a == CHOOSE x \in ids : TRUE
         IN abonos[a].monto + SumMontos(ids \ {a})

\* IFNULL(SUM(a.monto), 0) over LEFT JOIN abonos a ON v.id = a.ventaId
TotalAbonadoVenta(id) ==
    SumMontos({a \in DOMAIN abonos : abonos[a].ventaId = id})

\* IFNULL(SUM(ab.monto), 0) over LEFT JOIN abonos ab ON ap.id = ab.apartadoId
TotalAbonadoApartado(id) ==
    SumMontos({a \in DOMAIN abonos : abonos[a].apartadoId = id})

SaldoVenta(id) == ventas[id].monto - TotalAbonadoVenta(id)
SaldoApartado(id) == apartados[id].montoTotal - TotalAbonadoApartado(id)

\* Number.prototype.toFixed(2) on an exact decimal: to the nearest 0.01.
ToFixed2(x) ==
    IF x >= 0 THEN ((x + 50) \div 100) * 100
    ELSE -(((-x + 50) \div 100) * 100)

\* ------------------------------------------------------------- responses
\* What res.status(...).json(...) sends: the HTTP status, which error message,
\* and the fields of the body the properties read.
NoResp ==
    [op |-> "none", status |-> 0, error |-> "", refType |-> "none",
     id |-> NULL, monto |-> 0, saldo |-> 0, estado |-> "", rows |-> {}]

\* A response as it would be if the routes answered 400 where they answer 404.
RespSin404(op, status, error) ==
    [NoResp EXCEPT !.op = op,
                   !.status = IF status = 404 THEN 400 ELSE status,
                   !.error = error]

Resp(op, status, error) ==
    [NoResp EXCEPT !.op = op, !.status = status, !.error = error]

\* --------------------------------------------------------------- requests
\* A request with a statement queued: which route, which callback is next,
\* and the variables that callback closes over.  visto is history the code
\* does not keep: the state the layaway was in when the UPDATE of a deliver
\* request changed no row ("NoExiste" when there was no such layaway).
Req(op, pc) ==
    [op |-> op, pc |-> pc, refType |-> "none", refId |-> NULL,
     monto |-> 0, pend |-> {}, visto |-> ""]

Pendientes == BagToSet(pendientes)
Poner(bag, r) == bag (+) SetToBag({r})
Quitar(bag, r) == bag (-) SetToBag({r})

\* The server receives one more request.
Recibir ==
    /\ peticiones < MaxPeticiones
    /\ peticiones' = peticiones + 1

\* The request is answered with resp and nothing else happens.
Responder(resp) ==
    /\ emitted' = resp
    /\ UNCHANGED <<db, pendientes>>

Init ==
    /\ clientes = {}
    /\ ventas = <<>>
    /\ apartados = <<>>
    /\ abonos = <<>>
    /\ nextVentaId = 1
    /\ nextApartadoId = 1
    /\ nextAbonoId = 1
    /\ pendientes = EmptyBag
    /\ peticiones = 0
    /\ emitted = NoResp

\* ================================================================ clientes
\* POST /api/clientes
CrearCliente(nombre, ok) ==
    /\ Recibir
    /\ IF ~nombre
       THEN Responder(Resp("crearCliente", 400, "NameRequired"))
       ELSE IF ~ok
       THEN Responder(Resp("crearCliente", 500, "Storage"))
       ELSE /\ clientes' = clientes \cup {Cardinality(clientes) + 1}
            /\ emitted' = [Resp("crearCliente", 201, "")
                             EXCEPT !.id = Cardinality(clientes) + 1]
            /\ UNCHANGED <<ventas, apartados, abonos, nextVentaId,
                           nextApartadoId, nextAbonoId, pendientes>>

\* ================================================================== ventas
\* POST /api/ventas.  ok: whether the INSERT succeeds in storage.
CrearVenta(clienteId, monto, ok) ==
    /\ Recibir
    /\ IF ~Truthy(clienteId) \/ monto = NULL
       THEN Responder(Resp("crearVenta", 400, "MissingFields"))
       ELSE IF monto <= 0
       THEN Responder(Resp("crearVenta", 400, "NonPositive"))
       ELSE IF ~ok \/ (ForeignKeys /\ clienteId \notin clientes)
       THEN Responder(Resp("crearVenta", 500, "Storage"))
       ELSE /\ ventas' = ventas @@ (nextVentaId :>
                   [clienteId |-> clienteId, monto |-> monto,
                    estado |-> "Pendiente"])
            /\ nextVentaId' = nextVentaId + 1
            /\ emitted' = [Resp("crearVenta", 201, "")
                             EXCEPT !.id = nextVentaId, !.estado = "Pendiente",
                                    !.monto = monto, !.saldo = monto]
            /\ UNCHANGED <<clientes, apartados, abonos, nextApartadoId,
                           nextAbonoId, pendientes>>

\* The rows ON DELETE CASCADE removes with sale id, when it is enforced.
AbonosTrasBorrarVenta(id) ==
    IF ForeignKeys
    THEN [a \in {x \in DOMAIN abonos : abonos[x].ventaId # id} |-> abonos[a]]
    ELSE abonos

\* DELETE /api/ventas/:id
BorrarVenta(id, ok) ==
    /\ Recibir
    /\ IF ~ok
       THEN Responder([Resp("borrarVenta", 500, "Storage") EXCEPT !.id = id])
       ELSE IF id \notin DOMAIN ventas
       THEN Responder([Resp("borrarVenta", 404, "NotFound") EXCEPT !.id = id])
       ELSE /\ ventas' = [v \in DOMAIN ventas \ {id} |-> ventas[v]]
            /\ abonos' = AbonosTrasBorrarVenta(id)
            /\ emitted' = [Resp("borrarVenta", 200, "") EXCEPT !.id = id]
            /\ UNCHANGED <<clientes, apartados, nextVentaId, nextApartadoId,
                           nextAbonoId, pendientes>>

\* =============================================================== apartados
\* POST /api/apartados
CrearApartado(clienteId, montoTotal, ok) ==
    /\ Recibir
    /\ IF ~Truthy(clienteId) \/ montoTotal = NULL
       THEN Responder(Resp("crearApartado", 400, "MissingFields"))
       ELSE IF montoTotal <= 0
       THEN Responder(Resp("crearApartado", 400, "NonPositive"))
       ELSE IF ~ok \/ (ForeignKeys /\ clienteId \notin clientes)
       THEN Responder(Resp("crearApartado", 500, "Storage"))
       ELSE /\ apartados' = apartados @@ (nextApartadoId :>
                   [clienteId |-> clienteId, montoTotal |-> montoTotal,
                    estadoApartado |-> "Apartado", fechaEntrega |-> "NULL"])
            /\ nextApartadoId' = nextApartadoId + 1
            /\ emitted' = [Resp("crearApartado", 201, "")
                             EXCEPT !.id = nextApartadoId, !.estado = "Apartado",
                                    !.monto = montoTotal, !.saldo = montoTotal]
            /\ UNCHANGED <<clientes, ventas, abonos, nextVentaId,
                           nextAbonoId, pendientes>>

\* The rows ON DELETE CASCADE removes with layaway id, when it is enforced.
AbonosTrasBorrarApartado(id) ==
    IF ForeignKeys
    THEN [a \in {x \in DOMAIN abonos : abonos[x].apartadoId # id} |-> abonos[a]]
    ELSE abonos

\* DELETE /api/apartados/:id
BorrarApartado(id, ok) ==
    /\ Recibir
    /\ IF ~ok
       THEN Responder([Resp("borrarApartado", 500, "Storage") EXCEPT !.id = id])
       ELSE IF id \notin DOMAIN apartados
       THEN Responder([Resp("borrarApartado", 404, "NotFound") EXCEPT !.id = id])
       ELSE /\ apartados' = [x \in DOMAIN apartados \ {id} |-> apartados[x]]
            /\ abonos' = AbonosTrasBorrarApartado(id)
            /\ emitted' = [Resp("borrarApartado", 200, "") EXCEPT !.id = id]
            /\ UNCHANGED <<clientes, ventas, nextVentaId, nextApartadoId,
                           nextAbonoId, pendientes>>

\* The deliver UPDATE as it would be without AND estadoApartado = 'Pagado'.
EntregarSqlSinEstado(id, fechaEntrega) ==
    IF id \in DOMAIN apartados
    THEN [apartados EXCEPT ![id].estadoApartado = "Entregado",
                           ![id].fechaEntrega = fechaEntrega]
    ELSE apartados

\* The deliver UPDATE as it would be without fechaEntrega = ?.
EntregarSqlSinFecha(id, fechaEntrega) ==
    IF id \in DOMAIN apartados /\ apartados[id].estadoApartado = "Pagado"
    THEN [apartados EXCEPT ![id].estadoApartado = "Entregado"]
    ELSE apartados

\* UPDATE apartados SET estadoApartado = 'Entregado', fechaEntrega = ?
\*  WHERE id = ? AND estadoApartado = 'Pagado'
EntregarSql(id, fechaEntrega) ==
    IF id \in DOMAIN apartados /\ apartados[id].estadoApartado = "Pagado"
    THEN [apartados EXCEPT ![id].estadoApartado = "Entregado",
                           ![id].fechaEntrega = fechaEntrega]
    ELSE apartados

\* PUT /api/apartados/:id/entregar: the UPDATE and its callback.  With no row
\* changed the callback queues the SELECT of EntregarGet.
Entregar(id, ok) ==
    /\ Recibir
    /\ IF ~ok
       THEN Responder([Resp("entregar", 500, "Storage") EXCEPT !.id = id])
       ELSE IF EntregarSql(id, HOY) = apartados
       THEN /\ pendientes' =
                  Poner(pendientes,
                        [Req("entregar", "get")
                           EXCEPT !.refId = id,
                                  !.visto = IF id \in DOMAIN apartados
                                            THEN apartados[id].estadoApartado
                                            ELSE "NoExiste"])
            /\ emitted' = NoResp
            /\ UNCHANGED db
       ELSE /\ apartados' = EntregarSql(id, HOY)
            /\ emitted' = [Resp("entregar", 200, "")
                             EXCEPT !.id = id, !.estado = "Entregado"]
            /\ UNCHANGED <<clientes, ventas, abonos, nextVentaId,
                           nextApartadoId, nextAbonoId, pendientes>>

\* SELECT estadoApartado FROM apartados WHERE id = ?, and its callback, which
\* does not look at err: a failed SELECT has no row.
EntregarGet(r, ok) ==
    /\ r \in Pendientes
    /\ r.op = "entregar" /\ r.pc = "get"
    /\ LET id == r.refId
           hayFila == ok /\ id \in DOMAIN apartados
       IN emitted' =
            IF hayFila /\ apartados[id].estadoApartado # "Pagado"
            THEN [Resp("entregar", 400, "NotPagado")
                    EXCEPT !.id = id, !.estado = apartados[id].estadoApartado]
            ELSE [Resp("entregar", 404, "NotFoundOrNotPagado") EXCEPT !.id = id]
    /\ pendientes' = Quitar(pendientes, r)
    /\ UNCHANGED <<db, peticiones>>

\* The cancel UPDATE as it would be with 'Entregado' in its IN list.
CancelarSqlConEntregado(id) ==
    IF id \in DOMAIN apartados
       /\ apartados[id].estadoApartado \in {"Apartado", "Pagado", "Entregado"}
    THEN [apartados EXCEPT ![id].estadoApartado = "Cancelado"]
    ELSE apartados

\* UPDATE apartados SET estadoApartado = 'Cancelado'
\*  WHERE id = ? AND estadoApartado IN ('Apartado', 'Pagado')
CancelarSql(id) ==
    IF id \in DOMAIN apartados
       /\ apartados[id].estadoApartado \in {"Apartado", "Pagado"}
    THEN [apartados EXCEPT ![id].estadoApartado = "Cancelado"]
    ELSE apartados

\* The cancel handler as it would be without the test of this.changes: it
\* answers 200 whether the UPDATE changed a row or not.
CancelarSinChanges(id, ok) ==
    /\ Recibir
    /\ IF ~ok
       THEN Responder([Resp("cancelar", 500, "Storage") EXCEPT !.id = id])
       ELSE /\ apartados' = CancelarSql(id)
            /\ emitted' = [Resp("cancelar", 200, "")
                             EXCEPT !.id = id, !.estado = "Cancelado"]
            /\ UNCHANGED <<clientes, ventas, abonos, nextVentaId,
                           nextApartadoId, nextAbonoId, pendientes>>

\* PUT /api/apartados/:id/cancelar
Cancelar(id, ok) ==
    /\ Recibir
    /\ IF ~ok
       THEN Responder([Resp("cancelar", 500, "Storage") EXCEPT !.id = id])
       ELSE IF CancelarSql(id) = apartados
       THEN Responder([Resp("cancelar", 400, "CannotCancel") EXCEPT !.id = id])
       ELSE /\ apartados' = CancelarSql(id)
            /\ emitted' = [Resp("cancelar", 200, "")
                             EXCEPT !.id = id, !.estado = "Cancelado"]
            /\ UNCHANGED <<clientes, ventas, abonos, nextVentaId,
                           nextApartadoId, nextAbonoId, pendientes>>

\* The status of the list as it would be without the test of the balance.
NuevoEstadoSinSaldo(estadoApartado, saldoPendiente) ==
    IF estadoApartado = "Apartado" THEN "Pagado" ELSE estadoApartado

\* GET /api/apartados: the status the list shows for a row of the SELECT.
NuevoEstado(estadoApartado, saldoPendiente) ==
    IF estadoApartado = "Apartado" /\ saldoPendiente <= EPS
    THEN "Pagado"
    ELSE estadoApartado

\* The rows GET /api/apartados answers with; JOIN clientes drops a layaway
\* whose client is missing.
FilasApartados ==
    {[id |-> i,
      estado |-> NuevoEstado(apartados[i].estadoApartado, SaldoApartado(i)),
      totalAbonado |-> TotalAbonadoApartado(i),
      saldoPendiente |-> SaldoApartado(i)] :
        i \in {j \in DOMAIN apartados : apartados[j].clienteId \in clientes}}

\* GET /api/apartados: the SELECT and its callback, which queues a write-back
\* for every row it shows as Pagado and read as something else, then answers.
ListarApartados(ok) ==
    /\ Recibir
    /\ IF ~ok
       THEN Responder(Resp("listarApartados", 500, "Storage"))
       ELSE LET pend == {[id |-> f.id, estado |-> "Pagado"] :
                           f \in {g \in FilasApartados :
                                    /\ g.estado = "Pagado"
                                    /\ g.estado # apartados[g.id].estadoApartado}}
            IN /\ emitted' = [Resp("listarApartados", 200, "")
                                EXCEPT !.rows = FilasApartados]
               /\ pendientes' =
                     IF pend = {} THEN pendientes
                     ELSE Poner(pendientes,
                                [Req("listarApartados", "writeback")
                                   EXCEPT !.pend = pend])
               /\ UNCHANGED db

\* The layaway status UPDATE as it would be without
\* AND estadoApartado = 'Apartado'.
PagadoSqlSinEstado(id) ==
    IF id \in DOMAIN apartados
    THEN [apartados EXCEPT ![id].estadoApartado = "Pagado"]
    ELSE apartados

\* UPDATE apartados SET estadoApartado = 'Pagado'
\*  WHERE id = ? AND estadoApartado = 'Apartado'
PagadoSql(id) ==
    IF id \in DOMAIN apartados /\ apartados[id].estadoApartado = "Apartado"
    THEN [apartados EXCEPT ![id].estadoApartado = "Pagado"]
    ELSE apartados

\* What is left of list request r once its write-back w has run.
TrasWriteBack(r, w) ==
    IF r.pend = {w} THEN Quitar(pendientes, r)
    ELSE Poner(Quitar(pendientes, r), [r EXCEPT !.pend = r.pend \ {w}])

\* One queued write-back of GET /api/apartados; db.run has no callback, so a
\* failure goes unnoticed.
ApartadoWriteBack(r, w, ok) ==
    /\ r \in Pendientes
    /\ r.op = "listarApartados" /\ r.pc = "writeback"
    /\ w \in r.pend
    /\ apartados' = IF ok THEN PagadoSql(w.id) ELSE apartados
    /\ pendientes' = TrasWriteBack(r, w)
    /\ emitted' = NoResp
    /\ UNCHANGED <<clientes, ventas, abonos, nextVentaId, nextApartadoId,
                   nextAbonoId, peticiones>>

\* ================================================================== ventas
\* GET /api/ventas: the status the list shows for a row of the SELECT.
EstadoVenta(saldoPendiente) ==
    IF saldoPendiente <= EPS THEN "Pagada" ELSE "Pendiente"

\* The rows GET /api/ventas answers with.
FilasVentas ==
    {[id |-> i,
      estado |-> EstadoVenta(SaldoVenta(i)),
      totalAbonado |-> TotalAbonadoVenta(i),
      saldoPendiente |-> SaldoVenta(i)] :
        i \in {j \in DOMAIN ventas : ventas[j].clienteId \in clientes}}

\* GET /api/ventas: the SELECT and its callback, which queues one write-back
\* per row, then answers.
ListarVentas(ok) ==
    /\ Recibir
    /\ IF ~ok
       THEN Responder(Resp("listarVentas", 500, "Storage"))
       ELSE LET pend == {[id |-> f.id, estado |-> f.estado] : f \in FilasVentas}
            IN /\ emitted' = [Resp("listarVentas", 200, "")
                                EXCEPT !.rows = FilasVentas]
               /\ pendientes' =
                     IF pend = {} THEN pendientes
                     ELSE Poner(pendientes,
                                [Req("listarVentas", "writeback")
                                   EXCEPT !.pend = pend])
               /\ UNCHANGED db

\* The write-back of a sale as it would be with the two statuses of lines
\* 241-243 exchanged.
EstadoSqlOpuesto(id, estado) ==
    IF id \in DOMAIN ventas
    THEN [ventas EXCEPT ![id].estado =
             IF estado = "Pagada" THEN "Pendiente" ELSE "Pagada"]
    ELSE ventas

\* UPDATE ventas SET estado = ? WHERE id = ? AND estado != ?
EstadoSql(id, estado) ==
    IF id \in DOMAIN ventas /\ ventas[id].estado # estado
    THEN [ventas EXCEPT ![id].estado = estado]
    ELSE ventas

\* The write-back of a sale as it would be with a callback that answers 500
\* when the UPDATE fails.
VentaWriteBackConError(r, w, ok) ==
    /\ r \in Pendientes
    /\ r.op = "listarVentas" /\ r.pc = "writeback"
    /\ w \in r.pend
    /\ ventas' = IF ok THEN EstadoSql(w.id, w.estado) ELSE ventas
    /\ pendientes' = TrasWriteBack(r, w)
    /\ emitted' = IF ok THEN NoResp ELSE Resp("listarVentas", 500, "Storage")
    /\ UNCHANGED <<clientes, apartados, abonos, nextVentaId, nextApartadoId,
                   nextAbonoId, peticiones>>

\* One queued write-back of GET /api/ventas.
VentaWriteBack(r, w, ok) ==
    /\ r \in Pendientes
    /\ r.op = "listarVentas" /\ r.pc = "writeback"
    /\ w \in r.pend
    /\ ventas' = IF ok THEN EstadoSql(w.id, w.estado) ELSE ventas
    /\ pendientes' = TrasWriteBack(r, w)
    /\ emitted' = NoResp
    /\ UNCHANGED <<clientes, apartados, abonos, nextVentaId, nextApartadoId,
                   nextAbonoId, peticiones>>

\* ================================================================== abonos
\* The reference check as it would be if it only asked for some reference.
ReferenciaSoloAusente(ventaId, apartadoId) ==
    ~Truthy(ventaId) /\ ~Truthy(apartadoId)

\* The reference check of POST /api/abonos, on the truthiness of the two ids.
ReferenciaRechazada(ventaId, apartadoId) ==
    \/ (~Truthy(ventaId) /\ ~Truthy(apartadoId))
    \/ (Truthy(ventaId) /\ Truthy(apartadoId))

\* The overpayment test as it would be with >= in place of >.
ExcedeSaldoMayorIgual(montoAbono, saldoPendienteActual) ==
    montoAbono >= saldoPendienteActual + EPS

\* montoAbono > saldoPendienteActual + 0.001
ExcedeSaldo(montoAbono, saldoPendienteActual) ==
    montoAbono > saldoPendienteActual + EPS

\* CONSTRAINT chk_abono_referencia of the abonos table.
ChkAbonoReferencia(row) ==
    \/ (row.ventaId # NULL /\ row.apartadoId = NULL)
    \/ (row.ventaId = NULL /\ row.apartadoId # NULL)

\* The row POST /api/abonos inserts.
AbonoParams(refType, refId, montoAbono) ==
    IF refType = "venta"
    THEN [ventaId |-> refId, apartadoId |-> NULL, monto |-> montoAbono]
    ELSE [ventaId |-> NULL, apartadoId |-> refId, monto |-> montoAbono]

\* getRefSql has a row exactly when the sale or layaway exists.
ExisteRef(refType, refId) ==
    IF refType = "venta" THEN refId \in DOMAIN ventas
    ELSE refId \in DOMAIN apartados

\* The balance of getRefSql as it would be if the row compared the payment
\* with the total and left the payments already stored out.
SaldoRefSinAbonos(refType, refId) ==
    IF refType = "venta" THEN ventas[refId].monto ELSE apartados[refId].montoTotal

\* montoTotal - totalAbonadoActual of the row of getRefSql.
SaldoRef(refType, refId) ==
    IF refType = "venta" THEN SaldoVenta(refId) ELSE SaldoApartado(refId)

\* POST /api/abonos: the handler's validation, then getRefSql and its callback
\* (the not-found and the overpayment checks), which queues the INSERT.
Abono(ventaId, apartadoId, monto, fecha, ok) ==
    /\ Recibir
    /\ LET refType == IF Truthy(ventaId) THEN "venta" ELSE "apartado"
           refId == IF Truthy(ventaId) THEN ventaId ELSE apartadoId
           r(status, error) ==
               [Resp("abono", status, error)
                  EXCEPT !.refType = refType, !.id = refId]
       IN IF ReferenciaRechazada(ventaId, apartadoId)
          THEN Responder(Resp("abono", 400, "ReferenceXor"))
          ELSE IF monto = NULL \/ ~fecha
          THEN Responder(Resp("abono", 400, "MissingFields"))
          ELSE IF monto <= 0
          THEN Responder(Resp("abono", 400, "NonPositive"))
          ELSE IF ~ok
          THEN Responder(r(500, "Storage"))
          ELSE IF ~ExisteRef(refType, refId)
          THEN Responder(r(404, "NotFound"))
          ELSE IF ExcedeSaldo(monto, SaldoRef(refType, refId))
          THEN Responder([r(400, "Overpayment")
                            EXCEPT !.monto = monto,
                                   !.saldo = ToFixed2(SaldoRef(refType, refId))])
          ELSE /\ pendientes' =
                     Poner(pendientes,
                           [Req("abono", "insert")
                              EXCEPT !.refType = refType, !.refId = refId,
                                     !.monto = monto])
               /\ emitted' = NoResp
               /\ UNCHANGED db

\* The INSERT as it would be if its callback queued the status UPDATE at
\* once, without checkFullyPaidSql.
AbonoInsertSinCheck(r, ok) ==
    /\ r \in Pendientes
    /\ r.op = "abono" /\ r.pc = "insert"
    /\ LET row == AbonoParams(r.refType, r.refId, r.monto)
           resp(status, error) ==
               [Resp("abono", status, error)
                  EXCEPT !.refType = r.refType, !.id = r.refId, !.monto = r.monto]
       IN IF \/ ~ok
             \/ ~ChkAbonoReferencia(row)
             \/ (ForeignKeys /\ ~ExisteRef(r.refType, r.refId))
          THEN /\ emitted' = resp(500, "Storage")
               /\ pendientes' = Quitar(pendientes, r)
               /\ UNCHANGED db
          ELSE /\ abonos' = abonos @@ (nextAbonoId :> row)
               /\ nextAbonoId' = nextAbonoId + 1
               /\ pendientes' =
                     Poner(Quitar(pendientes, r), [r EXCEPT !.pc = "update"])
               /\ emitted' = resp(201, "")
               /\ UNCHANGED <<clientes, ventas, apartados, nextVentaId,
                              nextApartadoId>>
    /\ UNCHANGED peticiones

\* The INSERT of POST /api/abonos and its callback: it queues
\* checkFullyPaidSql and answers 201 at once.
AbonoInsert(r, ok) ==
    /\ r \in Pendientes
    /\ r.op = "abono" /\ r.pc = "insert"
    /\ LET row == AbonoParams(r.refType, r.refId, r.monto)
           resp(status, error) ==
               [Resp("abono", status, error)
                  EXCEPT !.refType = r.refType, !.id = r.refId, !.monto = r.monto]
       IN IF \/ ~ok
             \/ ~ChkAbonoReferencia(row)
             \/ (ForeignKeys /\ ~ExisteRef(r.refType, r.refId))
          THEN /\ emitted' = resp(500, "Storage")
               /\ pendientes' = Quitar(pendientes, r)
               /\ UNCHANGED db
          ELSE /\ abonos' = abonos @@ (nextAbonoId :> row)
               /\ nextAbonoId' = nextAbonoId + 1
               /\ pendientes' =
                     Poner(Quitar(pendientes, r), [r EXCEPT !.pc = "check"])
               /\ emitted' = resp(201, "")
               /\ UNCHANGED <<clientes, ventas, apartados, nextVentaId,
                              nextApartadoId>>
    /\ UNCHANGED peticiones

\* checkFullyPaidSql as it would be if it took the balance read by getRefSql,
\* before the INSERT, instead of reading it again.
AbonoCheckSaldoAnterior(r, ok) ==
    /\ r \in Pendientes
    /\ r.op = "abono" /\ r.pc = "check"
    /\ LET esPagada == /\ ok
                       /\ ExisteRef(r.refType, r.refId)
                       /\ SaldoRef(r.refType, r.refId) + r.monto <= EPS
       IN pendientes' =
            IF esPagada
            THEN Poner(Quitar(pendientes, r), [r EXCEPT !.pc = "update"])
            ELSE Quitar(pendientes, r)
    /\ emitted' = NoResp
    /\ UNCHANGED <<db, peticiones>>

\* checkFullyPaidSql and its callback: esPagada of the row, if there is one.
AbonoCheck(r, ok) ==
    /\ r \in Pendientes
    /\ r.op = "abono" /\ r.pc = "check"
    /\ LET esPagada == /\ ok
                       /\ ExisteRef(r.refType, r.refId)
                       /\ SaldoRef(r.refType, r.refId) <= EPS
       IN pendientes' =
            IF esPagada
            THEN Poner(Quitar(pendientes, r), [r EXCEPT !.pc = "update"])
            ELSE Quitar(pendientes, r)
    /\ emitted' = NoResp
    /\ UNCHANGED <<db, peticiones>>

\* The sale status UPDATE as it would be without WHERE id = ?.
PagadaSqlTodas(id) ==
    [v \in DOMAIN ventas |-> [ventas[v] EXCEPT !.estado = "Pagada"]]

\* UPDATE ventas SET estado = 'Pagada' WHERE id = ?
PagadaSql(id) ==
    IF id \in DOMAIN ventas
    THEN [ventas EXCEPT ![id].estado = "Pagada"]
    ELSE ventas

\* updateStatusSql and its callback, which only logs a failure.
AbonoUpdate(r, ok) ==
    /\ r \in Pendientes
    /\ r.op = "abono" /\ r.pc = "update"
    /\ IF r.refType = "venta"
       THEN /\ ventas' = IF ok THEN PagadaSql(r.refId) ELSE ventas
            /\ UNCHANGED apartados
       ELSE /\ apartados' = IF ok THEN PagadoSql(r.refId) ELSE apartados
            /\ UNCHANGED ventas
    /\ pendientes' = Quitar(pendientes, r)
    /\ emitted' = NoResp
    /\ UNCHANGED <<clientes, abonos, nextVentaId, nextApartadoId, nextAbonoId,
                   peticiones>>

\* ============================================================ specification
\* Every step the server can take; Oks is {TRUE} when storage never fails and
\* BOOLEAN when any statement may fail.
Paso(Oks) ==
    \/ \E nombre \in BOOLEAN, ok \in Oks : CrearCliente(nombre, ok)
    \/ \E c \in ClienteIds \cup {NULL}, m \in Montos \cup {NULL, 0}, ok \in Oks :
          CrearVenta(c, m, ok)
    \/ \E c \in ClienteIds \cup {NULL}, m \in Montos \cup {NULL, 0}, ok \in Oks :
          CrearApartado(c, m, ok)
    \/ \E id \in VentaIds, ok \in Oks : BorrarVenta(id, ok)
    \/ \E id \in ApartadoIds, ok \in Oks : BorrarApartado(id, ok)
    \/ \E ok \in Oks : ListarVentas(ok)
    \/ \E r \in Pendientes, ok \in Oks : \E w \in r.pend : VentaWriteBack(r, w, ok)
    \/ \E ok \in Oks : ListarApartados(ok)
    \/ \E r \in Pendientes, ok \in Oks : \E w \in r.pend : ApartadoWriteBack(r, w, ok)
    \/ \E id \in ApartadoIds, ok \in Oks : Entregar(id, ok)
    \/ \E r \in Pendientes, ok \in Oks : EntregarGet(r, ok)
    \/ \E id \in ApartadoIds, ok \in Oks : Cancelar(id, ok)
    \/ \E v \in VentaIds \cup {NULL, 0}, a \in ApartadoIds \cup {NULL, 0},
          m \in AbonoMontoInputs, fecha \in BOOLEAN, ok \in Oks :
          Abono(v, a, m, fecha, ok)
    \/ \E r \in Pendientes, ok \in Oks : AbonoInsert(r, ok)
    \/ \E r \in Pendientes, ok \in Oks : AbonoCheck(r, ok)
    \/ \E r \in Pendientes, ok \in Oks : AbonoUpdate(r, ok)

Next == Paso({TRUE})
NextFallas == Paso(BOOLEAN)

\* Storage never fails.
Spec == Init /\ [][Next]_vars
\* Any statement may fail in storage.
SpecFallas == Init /\ [][NextFallas]_vars

\* ================================================================== claims
\* C1: in every reachable state the payments that reference a sale or a
\* layaway sum to at most its total amount + 0.001.
C1_SumaDentroDelTotal ==
    /\ \A v \in DOMAIN ventas : TotalAbonadoVenta(v) <= ventas[v].monto + EPS
    /\ \A a \in DOMAIN apartados :
          TotalAbonadoApartado(a) <= apartados[a].montoTotal + EPS

\* The parent a payment row references, and whether it exists.
RefTypeDe(row) == IF row.ventaId # NULL THEN "venta" ELSE "apartado"
RefIdDe(row) == IF row.ventaId # NULL THEN row.ventaId ELSE row.apartadoId

\* C2: a payment request that passed validation and whose parent exists is
\* rejected as an overpayment (reporting the amount and the balance) if and
\* only if its amount exceeds, by more than 0.001, the balance computed from
\* the payments as they are immediately before its row is inserted: a step
\* that rejects does so on the balance of that moment, and a step that
\* inserts a row inserts one that does not exceed the balance of that moment.
C2_RechazoSiiExcede ==
    [][/\ (emitted'.op = "abono" /\ emitted'.error = "Overpayment") =>
            /\ ExisteRef(emitted'.refType, emitted'.id)
            /\ ExcedeSaldo(emitted'.monto, SaldoRef(emitted'.refType, emitted'.id))
            /\ emitted'.saldo = ToFixed2(SaldoRef(emitted'.refType, emitted'.id))
            /\ abonos' = abonos
       /\ \A n \in DOMAIN abonos' \ DOMAIN abonos :
            ExisteRef(RefTypeDe(abonos'[n]), RefIdDe(abonos'[n])) =>
               ~ExcedeSaldo(abonos'[n].monto,
                            SaldoRef(RefTypeDe(abonos'[n]), RefIdDe(abonos'[n])))
      ]_vars

\* Stored statuses of sales and layaways that differ after the step.
CambiosDeEstado ==
    Cardinality({v \in DOMAIN ventas \cap DOMAIN ventas' :
                   ventas'[v].estado # ventas[v].estado})
    + Cardinality({a \in DOMAIN apartados \cap DOMAIN apartados' :
                     apartados'[a].estadoApartado # apartados[a].estadoApartado})

\* C3: a payment request either succeeds, creating exactly one payment row
\* and applying at most one status transition, or fails (400, 404, 500),
\* creating no row and changing no stored status.  Step by step: a failure
\* answer leaves the tables as they are and leaves nothing of the request
\* pending; the success answer comes with exactly one new row, the one
\* asked for; no row appears without it; and what the request does after
\* answering inserts nothing and changes at most one status, that of its
\* parent, after which the request is over.
C3_UnSoloResultado ==
    [][LET nuevas == DOMAIN abonos' \ DOMAIN abonos
       IN /\ (emitted'.op = "abono" /\ emitted'.status # 201) =>
               /\ emitted'.status \in {400, 404, 500}
               /\ abonos' = abonos /\ ventas' = ventas /\ apartados' = apartados
               /\ \A r \in BagToSet(pendientes') :
                     r.op = "abono" =>
                        CopiesIn(r, pendientes') <= CopiesIn(r, pendientes)
          /\ (emitted'.op = "abono" /\ emitted'.status = 201) =>
               /\ Cardinality(nuevas) = 1
               /\ \A n \in nuevas :
                     abonos'[n] = AbonoParams(emitted'.refType, emitted'.id,
                                              emitted'.monto)
               /\ \A n \in DOMAIN abonos : abonos'[n] = abonos[n]
               /\ ventas' = ventas /\ apartados' = apartados
          /\ nuevas # {} => (emitted'.op = "abono" /\ emitted'.status = 201)
          /\ \A r \in Pendientes, ok \in BOOLEAN :
               (AbonoCheck(r, ok) \/ AbonoUpdate(r, ok)) =>
                  /\ abonos' = abonos
                  /\ CambiosDeEstado <= 1
                  /\ CambiosDeEstado = 1 => pendientes' = Quitar(pendientes, r)
                  /\ \A v \in DOMAIN ventas :
                        (r.refType # "venta" \/ v # r.refId) =>
                           (v \in DOMAIN ventas' /\ ventas'[v] = ventas[v])
                  /\ \A a \in DOMAIN apartados :
                        (r.refType # "apartado" \/ a # r.refId) =>
                           (a \in DOMAIN apartados' /\ apartados'[a] = apartados[a])
      ]_vars

\* A payment has been admitted, its sale is stored as paid, and nothing of
\* any request is left to run.
C3_Witness ==
    /\ pendientes = EmptyBag
    /\ \E v \in DOMAIN ventas :
          /\ ventas[v].estado = "Pagada"
          /\ \E n \in DOMAIN abonos : abonos[n].ventaId = v

\* C4: when the success answer of a payment that brings the balance of its
\* parent to 0.001 or less is sent, the stored status of the sale, or of the
\* layaway that was Apartado, is already the paid one.
C4_PagadoAlResponder ==
    [][(emitted'.op = "abono" /\ emitted'.status = 201) =>
         /\ \A v \in DOMAIN ventas' :
               (emitted'.refType = "venta" /\ emitted'.id = v
                /\ SaldoVenta(v)' <= EPS) => ventas'[v].estado = "Pagada"
         /\ \A a \in DOMAIN apartados' :
               (emitted'.refType = "apartado" /\ emitted'.id = a
                /\ SaldoApartado(a)' <= EPS
                /\ a \in DOMAIN apartados
                /\ apartados[a].estadoApartado = "Apartado") =>
                  apartados'[a].estadoApartado = "Pagado"
      ]_vars

\* An id in the body that names a row: ids start at 1.
TieneReferencia(v) == v # NULL /\ v >= 1

\* C5: a payment request with both a sale and a layaway reference, or with
\* neither, is answered 400 and stores nothing; and every payment row in the
\* table after a step has exactly one of ventaId and apartadoId (the table
\* starts empty).  The second part reads: a step that receives a request is
\* that rejection, or is not the handling of such a payment request.
C5_ReferenciaExclusiva ==
    [][/\ \A n \in DOMAIN abonos' :
            \/ (abonos'[n].ventaId # NULL /\ abonos'[n].apartadoId = NULL)
            \/ (abonos'[n].ventaId = NULL /\ abonos'[n].apartadoId # NULL)
       /\ \/ /\ emitted'.op = "abono"
             /\ emitted'.status = 400
             /\ emitted'.error = "ReferenceXor"
             /\ UNCHANGED <<db, pendientes>>
          \/ peticiones' = peticiones
          \/ \A v \in VentaIds \cup {NULL, 0}, a \in ApartadoIds \cup {NULL, 0} :
               (TieneReferencia(v) <=> TieneReferencia(a)) =>
                  \A m \in AbonoMontoInputs, fecha \in BOOLEAN, ok \in BOOLEAN :
                     ~Abono(v, a, m, fecha, ok)
      ]_vars

\* A request with both references has been rejected while a payment is stored.
C5_Witness ==
    /\ emitted.op = "abono" /\ emitted.error = "ReferenceXor"
    /\ DOMAIN abonos # {}

\* C6: deliver succeeds if and only if the stored state is Pagado when its
\* UPDATE runs; the success sets, in that one step, the state to Entregado and
\* the delivery date to the current date.  (An UPDATE that fails in storage
\* is answered 500 and changes nothing.)
C6_EntregarSiiPagado ==
    [][\A id \in ApartadoIds :
         LET pagado == /\ id \in DOMAIN apartados
                       /\ apartados[id].estadoApartado = "Pagado"
             exito == /\ emitted'.op = "entregar"
                      /\ emitted'.id = id
                      /\ emitted'.status = 200
         IN /\ Entregar(id, TRUE) => (exito <=> pagado)
            /\ exito =>
                 /\ pagado
                 /\ apartados' = [apartados EXCEPT
                                    ![id].estadoApartado = "Entregado",
                                    ![id].fechaEntrega = HOY]
                 /\ UNCHANGED <<clientes, ventas, abonos>>
            /\ (Entregar(id, TRUE) /\ ~pagado) => apartados' = apartados
            /\ Entregar(id, FALSE) =>
                 (emitted'.status = 500 /\ apartados' = apartados)
      ]_vars

\* A deliver request has just succeeded.
C6_Witness ==
    /\ emitted.op = "entregar" /\ emitted.status = 200
    /\ emitted.id \in DOMAIN apartados
    /\ apartados[emitted.id].estadoApartado = "Entregado"
    /\ apartados[emitted.id].fechaEntrega = HOY

\* C7: a deliver request made on an existing layaway that was not Pagado is
\* answered 400 with the current state of the layaway, never 404, and leaves
\* the layaway as it is, whatever other requests run meanwhile.
C7_NoPagadoRespondeEstado ==
    [][\A r \in Pendientes, ok \in BOOLEAN :
         (/\ EntregarGet(r, ok)
          /\ r.visto \in {"Apartado", "Entregado", "Cancelado"}
          /\ r.refId \in DOMAIN apartados) =>
            /\ emitted'.status = 400
            /\ emitted'.error = "NotPagado"
            /\ emitted'.estado = apartados[r.refId].estadoApartado
            /\ apartados' = apartados
      ]_vars

\* C8: cancel succeeds, setting the state to Cancelado, exactly when the
\* stored state is Apartado or Pagado; on an Entregado or Cancelado layaway it
\* is answered 400 and changes neither the state nor the delivery date.  (An
\* UPDATE that fails in storage is answered 500 and changes nothing.)
C8_CancelarSiiAbierto ==
    [][\A id \in ApartadoIds :
         LET existe == id \in DOMAIN apartados
             abierto == /\ existe
                        /\ apartados[id].estadoApartado \in {"Apartado", "Pagado"}
             exito == /\ emitted'.op = "cancelar"
                      /\ emitted'.id = id
                      /\ emitted'.status = 200
         IN /\ Cancelar(id, TRUE) => (exito <=> abierto)
            /\ exito =>
                 /\ abierto
                 /\ apartados' = [apartados EXCEPT
                                    ![id].estadoApartado = "Cancelado"]
            /\ (Cancelar(id, TRUE) /\ existe /\ ~abierto) =>
                 /\ emitted'.status = 400
                 /\ emitted'.error = "CannotCancel"
                 /\ apartados' = apartados
            /\ Cancelar(id, FALSE) =>
                 (emitted'.status = 500 /\ apartados' = apartados)
      ]_vars

\* A cancel request has just failed on a delivered layaway.
C8_Witness ==
    /\ emitted.op = "cancelar" /\ emitted.status = 400
    /\ emitted.id \in DOMAIN apartados
    /\ apartados[emitted.id].estadoApartado = "Entregado"
    /\ apartados[emitted.id].fechaEntrega = HOY

\* The edges of the layaway state machine.
Aristas ==
    {<<"Apartado", "Pagado">>, <<"Pagado", "Entregado">>,
     <<"Apartado", "Cancelado">>, <<"Pagado", "Cancelado">>}

\* C9: a layaway is created Apartado, under an id never used before; every
\* change of the stored state of a layaway is an edge of the state machine,
\* so Entregado and Cancelado never change while the row exists.
C9_SoloAristas ==
    [][/\ \A id \in DOMAIN apartados' \ DOMAIN apartados :
            /\ apartados'[id].estadoApartado = "Apartado"
            /\ id = nextApartadoId
       /\ \A id \in DOMAIN apartados \cap DOMAIN apartados' :
            \/ apartados'[id].estadoApartado = apartados[id].estadoApartado
            \/ <<apartados[id].estadoApartado, apartados'[id].estadoApartado>>
                  \in Aristas
      ]_vars

\* A layaway has gone from Apartado through Pagado to Entregado.
C9_Witness ==
    \E id \in DOMAIN apartados : apartados[id].estadoApartado = "Entregado"

\* C10: the two balance-driven writes on a layaway (a write-back of the list
\* and the status update after a payment) change nothing but the state of
\* that layaway, only from Apartado to Pagado and only with a balance of
\* 0.001 or less; a layaway that is Pagado, Entregado or Cancelado is left as
\* it is by them and by every other step of a payment or a list request.
C10_SoloApartadoAPagado ==
    [][/\ \A r \in Pendientes, ok \in BOOLEAN :
            /\ (\/ \E w \in r.pend : ApartadoWriteBack(r, w, ok)
                \/ (r.refType = "apartado" /\ AbonoUpdate(r, ok))) =>
                  \A id \in DOMAIN apartados :
                     /\ id \in DOMAIN apartados'
                     /\ apartados'[id] # apartados[id] =>
                          /\ apartados[id].estadoApartado = "Apartado"
                          /\ apartados'[id] =
                               [apartados[id] EXCEPT !.estadoApartado = "Pagado"]
                          /\ SaldoApartado(id) <= EPS
            /\ (AbonoInsert(r, ok) \/ AbonoCheck(r, ok)) =>
                  apartados' = apartados
       /\ (emitted'.op \in {"abono", "listarApartados"}) => apartados' = apartados
      ]_vars

\* A payment that covers a cancelled layaway has been admitted and its status
\* update has run: the layaway is still Cancelado.
C10_Witness ==
    /\ pendientes = EmptyBag
    /\ emitted = NoResp
    /\ \E id \in DOMAIN apartados :
          /\ apartados[id].estadoApartado = "Cancelado"
          /\ SaldoApartado(id) <= EPS

\* -------------------------------------------------- list-reads run alone
\* The database once POST /api/clientes has stored a first client.
InitConCliente ==
    /\ clientes = {1}
    /\ ventas = <<>>
    /\ apartados = <<>>
    /\ abonos = <<>>
    /\ nextVentaId = 1
    /\ nextApartadoId = 1
    /\ nextAbonoId = 1
    /\ pendientes = EmptyBag
    /\ peticiones = 0
    /\ emitted = NoResp

\* A GET /api/ventas or GET /api/apartados has write-backs left to run.
ListaEnCurso ==
    \E r \in Pendientes : r.op \in {"listarVentas", "listarApartados"}

\* The server with every list-read run alone: from its SELECT to its last
\* write-back no statement of another request runs, and no statement fails.
\* Before and after a list-read every step is possible.
NextLecturas ==
    /\ Next
    /\ ListaEnCurso =>
          \E r \in Pendientes : \E w \in r.pend :
             VentaWriteBack(r, w, TRUE) \/ ApartadoWriteBack(r, w, TRUE)

SpecLecturas == InitConCliente /\ [][NextLecturas]_vars

\* ------------------------------------------------- requests one at a time
\* The server with a client that sends a request only once the previous one
\* has been answered and all its statements have run; no statement fails.
NextSecuencial ==
    /\ Next
    /\ peticiones' # peticiones => pendientes = EmptyBag

\* The database once POST /api/clientes has stored a first client and
\* POST /api/ventas a first sale, of total 50.00, 100.0005 or 100.001, for
\* that client or for client 2, which does not exist.
InitVentaCreada ==
    /\ clientes = {1}
    /\ \E c \in {1, 2}, monto \in {m \in AbonoMontoInputs : m > 0} :
          ventas = (1 :> [clienteId |-> c, monto |-> monto,
                          estado |-> "Pendiente"])
    /\ apartados = <<>>
    /\ abonos = <<>>
    /\ nextVentaId = 2
    /\ nextApartadoId = 1
    /\ nextAbonoId = 1
    /\ pendientes = EmptyBag
    /\ peticiones = 0
    /\ emitted = NoResp

SpecVentaCreada == InitVentaCreada /\ [][NextSecuencial]_vars

\* The database once POST /api/clientes has stored a first client and
\* POST /api/apartados a first layaway for it, of total 50.00.
InitApartadoCreado ==
    /\ clientes = {1}
    /\ ventas = <<>>
    /\ apartados = (1 :> [clienteId |-> 1, montoTotal |-> 500000,
                          estadoApartado |-> "Apartado",
                          fechaEntrega |-> "NULL"])
    /\ abonos = <<>>
    /\ nextVentaId = 1
    /\ nextApartadoId = 2
    /\ nextAbonoId = 1
    /\ pendientes = EmptyBag
    /\ peticiones = 0
    /\ emitted = NoResp

SpecApartadoCreado == InitApartadoCreado /\ [][NextSecuencial]_vars

\* The server with every list-read run alone, any statement failing or not:
\* from the SELECT of a list-read to its last write-back no statement of
\* another request runs.
NextLecturasConFallas ==
    /\ NextFallas
    /\ ListaEnCurso =>
          \E r \in Pendientes, ok \in BOOLEAN : \E w \in r.pend :
             VentaWriteBack(r, w, ok) \/ ApartadoWriteBack(r, w, ok)

SpecLecturasConFallas == InitConCliente /\ [][NextLecturasConFallas]_vars

\* ------------------------------------------- admissions one at a time
\* The payment requests that have read the balance of a parent and whose
\* INSERT has not run yet.
PorInsertar(refType, refId) ==
    {r \in Pendientes : /\ r.op = "abono" /\ r.pc = "insert"
                        /\ r.refType = refType /\ r.refId = refId}

\* For every parent at most one payment request stands between its balance
\* read and its INSERT.
EnSerie ==
    \A r \in Pendientes :
       (r.op = "abono" /\ r.pc = "insert") =>
          /\ PorInsertar(r.refType, r.refId) = {r}
          /\ CopiesIn(r, pendientes) = 1

\* The server with the admissions of payments on one parent run one at a
\* time: getRefSql of a payment does not run while another payment on the
\* same parent is between its getRefSql and its INSERT. Everything else
\* interleaves freely; no statement fails.
NextAdmisionesEnSerie ==
    /\ Next
    /\ EnSerie'

SpecAdmisionesEnSerie == Init /\ [][NextAdmisionesEnSerie]_vars

\* ------------------------------------------------- callbacks run fairly
\* The statements a request has queued: node-sqlite3 runs every queued
\* statement and calls its callback.
Callbacks ==
    \E r \in Pendientes :
       \/ AbonoInsert(r, TRUE)
       \/ EntregarGet(r, TRUE)
       \/ \E w \in r.pend : VentaWriteBack(r, w, TRUE) \/ ApartadoWriteBack(r, w, TRUE)

\* The server, no statement failing, with every queued statement run in the
\* end; which requests arrive, and when, is left open.
SpecJusto ==
    /\ Init /\ [][Next]_vars
    /\ WF_vars(Callbacks)
    /\ WF_vars(\E r \in Pendientes : AbonoCheck(r, TRUE))
    /\ WF_vars(\E r \in Pendientes : AbonoUpdate(r, TRUE))

\* The status a sale has by its balance.
EstadoPorSaldo(saldo) == IF saldo <= EPS THEN "Pagada" ELSE "Pendiente"

\* C11: a list-read of sales returns, for each sale, Pagada if its balance is
\* 0.001 or less and Pendiente otherwise; and when a list-read and its
\* write-backs have completed with nothing in between, the stored status of
\* every sale is Pagada if and only if its balance is 0.001 or less.
C11_LecturaReconciliaVentas ==
    [][/\ (emitted'.op = "listarVentas" /\ emitted'.status = 200) =>
            /\ \A v \in DOMAIN ventas :
                  \E f \in emitted'.rows :
                     f.id = v /\ f.estado = EstadoPorSaldo(SaldoVenta(v))
            /\ pendientes' = pendientes =>
                  \A v \in DOMAIN ventas :
                     ventas[v].estado = EstadoPorSaldo(SaldoVenta(v))
       /\ \A r \in Pendientes : \A w \in r.pend :
            (r.pend = {w} /\ VentaWriteBack(r, w, TRUE)) =>
               \A v \in DOMAIN ventas' :
                  ventas'[v].estado = EstadoPorSaldo(SaldoVenta(v)')
      ]_vars

\* C12: reconciling a record by list-read twice in succession, nothing else
\* in between, gives the same status both times and at most one effective
\* write; the second run changes nothing.  At the write-back of a first run
\* (status w.estado, possibly an effective write) a second SELECT shows the
\* same status for the record and a second write-back of it is no write; and
\* a write-back that finds the stored status it carries, which is what every
\* write-back of the second run finds, changes nothing.  A layaway list-read
\* that queues no write-back shows the stored status, as a second one does.
C12_ReconciliarDosVeces ==
    [][/\ \A r \in Pendientes : \A w \in r.pend :
            /\ (VentaWriteBack(r, w, TRUE) /\ w.id \in DOMAIN ventas) =>
                  /\ \A f \in FilasVentas' : f.id = w.id => f.estado = w.estado
                  /\ EstadoSql(w.id, w.estado)' = ventas'
                  /\ ventas[w.id].estado = w.estado => ventas' = ventas
            /\ (ApartadoWriteBack(r, w, TRUE) /\ w.id \in DOMAIN apartados) =>
                  /\ \A f \in FilasApartados' : f.id = w.id => f.estado = w.estado
                  /\ PagadoSql(w.id)' = apartados'
                  /\ apartados[w.id].estadoApartado = w.estado =>
                        apartados' = apartados
       /\ (emitted'.op = "listarApartados" /\ emitted'.status = 200) =>
            \A f \in emitted'.rows :
               (\A r \in BagToSet(pendientes') : \A w \in r.pend : w.id # f.id) =>
                  /\ f.estado = apartados[f.id].estadoApartado
                  /\ \A g \in FilasApartados' : g.id = f.id => g.estado = f.estado
      ]_vars

\* A second list-read of sales has answered: the sale it shows as Pagada was
\* stored as Pagada by the write-back of an earlier list-read, the status
\* update of its payment not having run yet.
C12_Witness ==
    /\ emitted.op = "listarVentas" /\ emitted.status = 200
    /\ \E v \in DOMAIN ventas :
          /\ ventas[v].estado = "Pagada"
          /\ \E f \in emitted.rows : f.id = v /\ f.estado = "Pagada"
          /\ \E r \in Pendientes :
                r.op = "abono" /\ r.pc = "check" /\ r.refId = v

\* The parents with an outstanding balance of 100.00, as <<refType, id>>.
ConSaldoCien ==
    {<<"venta", v>> : v \in {x \in DOMAIN ventas : SaldoVenta(x) = 1000000}}
    \cup {<<"apartado", a>> :
            a \in {x \in DOMAIN apartados : SaldoApartado(x) = 1000000}}

\* The step is POST /api/abonos of monto on parent p, body complete, its
\* SELECT succeeding.
AbonoSobre(p, monto) ==
    IF p[1] = "venta" THEN Abono(p[2], NULL, monto, TRUE, TRUE)
    ELSE Abono(NULL, p[2], monto, TRUE, TRUE)

\* The step rejects a payment as an overpayment, storing nothing.
RechazaPorExceso ==
    /\ emitted'.op = "abono" /\ emitted'.status = 400
    /\ emitted'.error = "Overpayment"
    /\ UNCHANGED <<db, pendientes>>

\* The step admits a payment of monto on parent p: its INSERT is queued.
Admite(p, monto) ==
    /\ emitted' = NoResp
    /\ pendientes' (-) pendientes =
          SetToBag({[Req("abono", "insert")
                       EXCEPT !.refType = p[1], !.refId = p[2], !.monto = monto]})
    /\ UNCHANGED db

\* C13, as the spec states it: against a balance of 100.00 a payment of
\* 100.001 is rejected as an overpayment and one of 100.0005 is accepted.
C13_LimiteSegunSpec ==
    [][\A p \in ConSaldoCien :
         /\ AbonoSobre(p, 1000010) => RechazaPorExceso
         /\ AbonoSobre(p, 1000005) => Admite(p, 1000005)
      ]_vars

\* C13, as the code behaves: against a balance of 100.00 a payment of 100.001
\* is accepted, 100.001 not being greater than 100.00 + 0.001, and so is one
\* of 100.0005; the INSERT of either, when storage does not fail, stores the
\* row and is answered 201.
C13_LimiteSegunCodigo ==
    [][/\ \A p \in ConSaldoCien :
            /\ AbonoSobre(p, 1000010) => Admite(p, 1000010)
            /\ AbonoSobre(p, 1000005) => Admite(p, 1000005)
       /\ \A r \in Pendientes :
            (r.monto \in {1000010, 1000005} /\ AbonoInsert(r, TRUE)) =>
               /\ emitted'.op = "abono" /\ emitted'.status = 201
               /\ emitted'.monto = r.monto
               /\ abonos' = abonos @@
                     (nextAbonoId :> AbonoParams(r.refType, r.refId, r.monto))
      ]_vars

\* A payment of 100.001 on a sale of 100.00 with no other payment has been
\* stored and answered 201.
C13_Witness ==
    /\ emitted.op = "abono" /\ emitted.status = 201 /\ emitted.monto = 1000010
    /\ emitted.refType = "venta"
    /\ emitted.id \in DOMAIN ventas
    /\ ventas[emitted.id].monto = 1000000
    /\ TotalAbonadoVenta(emitted.id) = 1000010

\* The payment rows of sale v.
AbonosDeVenta(v) == {n \in DOMAIN abonos : abonos[n].ventaId = v}

\* No payment request on sale v is in flight, but for r.
SoloEnVenta(v, r) ==
    \A q \in Pendientes :
       (q.op = "abono" /\ q.refType = "venta" /\ q.refId = v) =>
          (q = r /\ CopiesIn(q, pendientes) = 1)

\* C14: a sale of total A with no payments admits a single payment of
\* exactly A: the request is queued for insert, its INSERT stores the row and
\* is answered 201, its check finds the sale paid, its status UPDATE leaves
\* the sale stored as Pagada with balance 0; and a list-read that follows
\* shows the sale as Pagada with totalAbonado = A and saldoPendiente = 0.
C14_IdaYVuelta ==
    [][/\ \A v \in DOMAIN ventas :
            (/\ AbonosDeVenta(v) = {}
             /\ \A q \in Pendientes : ~(q.refType = "venta" /\ q.refId = v)
             /\ Abono(v, NULL, ventas[v].monto, TRUE, TRUE)) =>
               Admite(<<"venta", v>>, ventas[v].monto)
       /\ \A r \in Pendientes :
            (/\ r.op = "abono" /\ r.refType = "venta"
             /\ r.refId \in DOMAIN ventas
             /\ r.monto = ventas[r.refId].monto
             /\ SoloEnVenta(r.refId, r)) =>
               /\ (AbonosDeVenta(r.refId) = {} /\ AbonoInsert(r, TRUE)) =>
                     /\ emitted'.op = "abono" /\ emitted'.status = 201
                     /\ emitted'.monto = r.monto
                     /\ SaldoVenta(r.refId)' = 0
               /\ (SaldoVenta(r.refId) = 0 /\ AbonoCheck(r, TRUE)) =>
                     [r EXCEPT !.pc = "update"] \in BagToSet(pendientes')
               /\ (SaldoVenta(r.refId) = 0 /\ AbonoUpdate(r, TRUE)) =>
                     /\ ventas'[r.refId].estado = "Pagada"
                     /\ SaldoVenta(r.refId)' = 0
       /\ \A v \in DOMAIN ventas :
            (/\ ListarVentas(TRUE)
             /\ ventas[v].estado = "Pagada"
             /\ Cardinality(AbonosDeVenta(v)) = 1
             /\ TotalAbonadoVenta(v) = ventas[v].monto) =>
               [id |-> v, estado |-> "Pagada",
                totalAbonado |-> ventas[v].monto, saldoPendiente |-> 0]
                  \in emitted'.rows
      ]_vars

\* The one payment of the scenario: 50.00 on layaway 1.
PagoCincuenta == (1 :> [ventaId |-> NULL, apartadoId |-> 1, monto |-> 500000])

C16_BorrarEnCascada ==
    [][/\ (emitted'.op = "borrarVenta" /\ emitted'.status = 200) =>
            \A n \in DOMAIN abonos' : abonos'[n].ventaId # emitted'.id
       /\ (emitted'.op = "borrarApartado" /\ emitted'.status = 200) =>
            \A n \in DOMAIN abonos' : abonos'[n].apartadoId # emitted'.id
       /\ \A id \in VentaIds \ DOMAIN ventas :
            BorrarVenta(id, TRUE) =>
               (emitted'.status = 404 /\ UNCHANGED <<db, pendientes>>)
       /\ \A id \in ApartadoIds \ DOMAIN apartados :
            BorrarApartado(id, TRUE) =>
               (emitted'.status = 404 /\ UNCHANGED <<db, pendientes>>)
       /\ \A n \in DOMAIN abonos' :
            IF abonos'[n].ventaId # NULL
            THEN abonos'[n].ventaId \in DOMAIN ventas'
            ELSE abonos'[n].apartadoId \in DOMAIN apartados'
      ]_vars

\* The payment requests that pass validation and name a parent that does not
\* exist, as <<ventaId, apartadoId, monto>>.
AbonosSinPadre ==
    {<<v, NULL, m>> : v \in VentaIds \ DOMAIN ventas,
                      m \in {x \in AbonoMontoInputs : x > 0}}
    \cup {<<NULL, a, m>> : a \in ApartadoIds \ DOMAIN apartados,
                           m \in {x \in AbonoMontoInputs : x > 0}}

\* C17: a payment request that passes validation and names a sale or a
\* layaway that does not exist when it is looked up is answered 404
\* NotFound, stores no payment row, changes no status and leaves nothing to
\* run.
C17_PadreInexistente ==
    [][\/ peticiones' = peticiones
       \/ \A p \in AbonosSinPadre :
             Abono(p[1], p[2], p[3], TRUE, TRUE) =>
                /\ emitted'.op = "abono" /\ emitted'.status = 404
                /\ emitted'.error = "NotFound"
                /\ emitted'.id = IF p[1] # NULL THEN p[1] ELSE p[2]
                /\ UNCHANGED <<db, pendientes>>
      ]_vars

\* A payment on a sale that was deleted has been answered not-found; nothing
\* is stored for it.
C17_Witness ==
    /\ emitted.op = "abono" /\ emitted.status = 404
    /\ emitted.refType = "venta"
    /\ emitted.id < nextVentaId
    /\ emitted.id \notin DOMAIN ventas
    /\ \A n \in DOMAIN abonos : abonos[n].ventaId # emitted.id

\* C18: a list-read answers 200 with the enriched rows (totalAbonado,
\* saldoPendiente, derived status) at the step that queues its write-backs,
\* whatever becomes of them; a write-back that fails in storage changes no
\* table and answers nothing; and a write-back that succeeds, the list-read
\* run alone, leaves the stored status of its record in line with the
\* balance.
C18_WriteBackFallido ==
    [][/\ (emitted'.op = "listarVentas" /\ emitted'.status = 200) =>
            /\ emitted'.rows = FilasVentas
            /\ \A f \in emitted'.rows :
                  /\ f.totalAbonado = TotalAbonadoVenta(f.id)
                  /\ f.saldoPendiente = ventas[f.id].monto - f.totalAbonado
                  /\ f.estado = EstadoPorSaldo(f.saldoPendiente)
       /\ (emitted'.op = "listarApartados" /\ emitted'.status = 200) =>
            /\ emitted'.rows = FilasApartados
            /\ \A f \in emitted'.rows :
                  /\ f.totalAbonado = TotalAbonadoApartado(f.id)
                  /\ f.saldoPendiente = apartados[f.id].montoTotal - f.totalAbonado
                  /\ f.estado =
                        IF apartados[f.id].estadoApartado = "Apartado"
                           /\ f.saldoPendiente <= EPS
                        THEN "Pagado" ELSE apartados[f.id].estadoApartado
       /\ \A r \in Pendientes : \A w \in r.pend :
            /\ (VentaWriteBack(r, w, FALSE) \/ ApartadoWriteBack(r, w, FALSE)) =>
                  (emitted' = NoResp /\ UNCHANGED db)
            /\ (VentaWriteBack(r, w, TRUE) /\ w.id \in DOMAIN ventas) =>
                  /\ emitted' = NoResp
                  /\ ventas'[w.id].estado = EstadoPorSaldo(SaldoVenta(w.id)')
            /\ (ApartadoWriteBack(r, w, TRUE) /\ w.id \in DOMAIN apartados) =>
                  /\ emitted' = NoResp
                  /\ apartados'[w.id].estadoApartado = "Pagado"
                  /\ SaldoApartado(w.id)' <= EPS
      ]_vars

\* A list-read of two sales has answered and the write-back of one of them
\* has failed: that sale is still stored as Pendiente with its balance paid
\* and no payment request in flight, the write-back of the other is left.
C18_Witness ==
    \E r \in Pendientes :
       /\ r.op = "listarVentas"
       /\ \A q \in Pendientes : q = r
       /\ \E v \in DOMAIN ventas :
             /\ ventas[v].clienteId \in clientes
             /\ ventas[v].estado = "Pendiente"
             /\ SaldoVenta(v) <= EPS
             /\ \A w \in r.pend : w.id # v

\* C19: with the admissions on one parent run one at a time, the payments
\* stored for a sale or a layaway never add up to more than its total plus
\* 0.001; and once the payments of a parent have reached or passed its
\* total by up to 0.001, a further positive payment on it is answered 400
\* and stores nothing.
C19_EnSerieDentroDelTotal ==
    [][/\ \A v \in DOMAIN ventas' :
            TotalAbonadoVenta(v)' <= ventas'[v].monto + EPS
       /\ \A a \in DOMAIN apartados' :
            TotalAbonadoApartado(a)' <= apartados'[a].montoTotal + EPS
       /\ \/ peticiones' = peticiones
          \/ \A m \in {x \in AbonoMontoInputs : x > 0} :
                /\ \A v \in DOMAIN ventas :
                      (SaldoVenta(v) <= 0 /\ Abono(v, NULL, m, TRUE, TRUE)) =>
                         /\ emitted'.status = 400
                         /\ emitted'.error = "Overpayment"
                         /\ UNCHANGED <<db, pendientes>>
                /\ \A a \in DOMAIN apartados :
                      (SaldoApartado(a) <= 0 /\ Abono(NULL, a, m, TRUE, TRUE)) =>
                         /\ emitted'.status = 400
                         /\ emitted'.error = "Overpayment"
                         /\ UNCHANGED <<db, pendientes>>
      ]_vars

\* A payment has overshot the total of a sale by 0.0005 or 0.001 and a later
\* positive payment on that sale has just been turned down.
C19_Witness ==
    /\ emitted.op = "abono" /\ emitted.status = 400
    /\ emitted.error = "Overpayment"
    /\ emitted.refType = "venta"
    /\ emitted.id \in DOMAIN ventas
    /\ TotalAbonadoVenta(emitted.id) > ventas[emitted.id].monto
    /\ TotalAbonadoVenta(emitted.id) <= ventas[emitted.id].monto + EPS

\* The INSERT of a payment on sale v has just been answered 201 and leaves
\* the balance of the sale at 0.001 or less.
VentaSaldada(v) ==
    /\ emitted.op = "abono" /\ emitted.status = 201
    /\ emitted.refType = "venta" /\ emitted.id = v
    /\ v \in DOMAIN ventas
    /\ SaldoVenta(v) <= EPS

\* The same for layaway a, stored as Apartado.
ApartadoSaldado(a) ==
    /\ emitted.op = "abono" /\ emitted.status = 201
    /\ emitted.refType = "apartado" /\ emitted.id = a
    /\ a \in DOMAIN apartados
    /\ apartados[a].estadoApartado = "Apartado"
    /\ SaldoApartado(a) <= EPS

\* The layaway part of C20: a layaway stored as Apartado whose balance a
\* payment brings to 0.001 or less is stored as Pagado in the end, unless it
\* is cancelled or deleted first.
ApartadoAcabaPagado ==
    \A a \in 1..MaxPeticiones :
       ApartadoSaldado(a) ~>
          \/ a \notin DOMAIN apartados
          \/ apartados[a].estadoApartado \in {"Pagado", "Cancelado"}

\* C20 as stated: with the callbacks run fairly and no statement failing, a
\* sale whose balance a payment brings to 0.001 or less is stored as Pagada
\* in the end, whether a list-read comes or not; likewise a layaway, unless
\* it is cancelled or deleted first.
C20_AcabaPagada ==
    /\ \A v \in 1..MaxPeticiones :
          VentaSaldada(v) ~> (v \in DOMAIN ventas /\ ventas[v].estado = "Pagada")
    /\ ApartadoAcabaPagado

\* C20 with the exception the layaways have: the sale is stored as Pagada in
\* the end unless it is deleted first.
C20_AcabaPagadaSiNoSeBorra ==
    /\ \A v \in 1..MaxPeticiones :
          VentaSaldada(v) ~>
             (v \notin DOMAIN ventas \/ ventas[v].estado = "Pagada")
    /\ ApartadoAcabaPagado

\* The payment that settles a sale has been stored and every queued
\* statement has run: the sale is stored as Pagada.
C20_Witness ==
    /\ pendientes = EmptyBag
    /\ emitted = NoResp
    /\ \E v \in DOMAIN ventas :
          /\ ventas[v].estado = "Pagada"
          /\ SaldoVenta(v) <= EPS
          /\ \E n \in DOMAIN abonos : abonos[n].ventaId = v

\* C21: a sale stored as Pagada whose payments cover its total (balance of
\* 0.001 or less) is stored as Pagada after every step that leaves it in the
\* table, the write-back of a list-read that read the balance before the
\* covering payment was stored included.
C21_PagadaNoVuelveAPendiente ==
    [][\A v \in DOMAIN ventas :
          (/\ ventas[v].estado = "Pagada"
           /\ SaldoVenta(v) <= EPS
           /\ v \in DOMAIN ventas') =>
             ventas'[v].estado = "Pagada"
      ]_vars

\* C22: after every step, a layaway stored as Pagado or Entregado has
\* payments that add up to its total less 0.001 or more; and no step takes a
\* payment away from a layaway that stays in the table, or changes its
\* total.
C22_PagadoEstaPagado ==
    [][/\ \A a \in DOMAIN apartados' :
            apartados'[a].estadoApartado \in {"Pagado", "Entregado"} =>
               TotalAbonadoApartado(a)' >= apartados'[a].montoTotal - EPS
       /\ \A a \in DOMAIN apartados :
            a \in DOMAIN apartados' =>
               /\ apartados'[a].montoTotal = apartados[a].montoTotal
               /\ TotalAbonadoApartado(a)' >= TotalAbonadoApartado(a)
      ]_vars

\* A layaway has been paid and delivered: it is stored as Entregado and its
\* payments cover its total.
C22_Witness ==
    \E a \in DOMAIN apartados :
       /\ apartados[a].estadoApartado = "Entregado"
       /\ \E n \in DOMAIN abonos : abonos[n].apartadoId = a
       /\ TotalAbonadoApartado(a) >= apartados[a].montoTotal - EPS

\* C23: of a deliver and a cancel request on the same layaway stored as
\* Pagado, the one whose UPDATE runs first is answered 200 and the other is
\* turned down. A deliver request is answered 200 only on a layaway stored
\* as Pagado and leaves it Entregado with a delivery date; a cancel request
\* is answered 200 only on a layaway stored as Apartado or Pagado and leaves
\* it Cancelado without one. A layaway stored as Entregado or Cancelado
\* changes no more: a cancel request on an Entregado one is answered 400 and
\* a deliver request on a Cancelado one is answered 400 with that state. After
\* every step a layaway has a delivery date if and only if it is stored as
\* Entregado.
C23_EntregarOCancelar ==
    [][/\ \A a \in DOMAIN apartados' :
            (apartados'[a].fechaEntrega # "NULL")
               <=> (apartados'[a].estadoApartado = "Entregado")
       /\ \A a \in DOMAIN apartados :
            /\ (/\ apartados[a].estadoApartado \in {"Entregado", "Cancelado"}
                /\ a \in DOMAIN apartados') =>
                  apartados'[a] = apartados[a]
            /\ (apartados[a].estadoApartado = "Pagado" /\ Entregar(a, TRUE)) =>
                  /\ emitted'.op = "entregar" /\ emitted'.status = 200
                  /\ apartados'[a].estadoApartado = "Entregado"
                  /\ apartados'[a].fechaEntrega = HOY
            /\ (apartados[a].estadoApartado = "Pagado" /\ Cancelar(a, TRUE)) =>
                  /\ emitted'.op = "cancelar" /\ emitted'.status = 200
                  /\ apartados'[a].estadoApartado = "Cancelado"
                  /\ apartados'[a].fechaEntrega = "NULL"
            /\ (apartados[a].estadoApartado = "Entregado" /\ Cancelar(a, TRUE)) =>
                  /\ emitted'.op = "cancelar" /\ emitted'.status = 400
                  /\ UNCHANGED db
            /\ (apartados[a].estadoApartado = "Cancelado" /\ Entregar(a, TRUE)) =>
                  /\ emitted' = NoResp
                  /\ UNCHANGED db
       /\ (emitted'.op = "entregar" /\ emitted'.status = 200) =>
            /\ emitted'.id \in DOMAIN apartados
            /\ apartados[emitted'.id].estadoApartado = "Pagado"
            /\ apartados'[emitted'.id].estadoApartado = "Entregado"
       /\ (emitted'.op = "cancelar" /\ emitted'.status = 200) =>
            /\ emitted'.id \in DOMAIN apartados
            /\ apartados[emitted'.id].estadoApartado \in {"Apartado", "Pagado"}
            /\ apartados'[emitted'.id].estadoApartado = "Cancelado"
       /\ \A r \in Pendientes :
            (/\ EntregarGet(r, TRUE)
             /\ r.refId \in DOMAIN apartados
             /\ apartados[r.refId].estadoApartado = "Cancelado") =>
               /\ emitted'.status = 400
               /\ emitted'.estado = "Cancelado"
      ]_vars

\* The deliver request ran first on a paid layaway and the cancel request
\* after it has just been turned down: the layaway is stored as Entregado
\* with its delivery date.
C23_Witness ==
    /\ emitted.op = "cancelar" /\ emitted.status = 400
    /\ emitted.id \in DOMAIN apartados
    /\ apartados[emitted.id].estadoApartado = "Entregado"
    /\ apartados[emitted.id].fechaEntrega = HOY

====
